---- MODULE Spec2Model ----
(***************************************************************************)
(* Model of internal/clients-service/service/service.go: the clients       *)
(* service over the two MySQL tables `clients` and `client_matches`.       *)
(*                                                                         *)
(* The committed contents of the two tables are the variables `clients`    *)
(* and `matches`.  A NewMatch invocation is a process with a program       *)
(* counter: BeginTxx, INSERT, UPDATE, Rollback and the deferred Commit are *)
(* separate steps, so invocations interleave with each other and with the  *)
(* single-statement handlers.  What an open transaction has written is     *)
(* private to it (tx[t].rows, tx[t].score) until its Commit takes effect;  *)
(* UPDATE takes the row's exclusive lock, which the transaction holds      *)
(* until it is finalized (InnoDB).                                         *)
(***************************************************************************)
EXTENDS Integers, Sequences, FiniteSets, TLC

\* clients created in the runs of the read handlers (SpecRead)
MaxClients == 2
\* NewMatch invocations, and the clients created in the runs where they
\* all run concurrently (Spec)
MaxTx == 2
MaxTxClients == 1
\* ids in a GetClients request
MaxListLen == 2
\* items in a Sort request
MaxItems == 4

Tx == 1..MaxTx

\* a client_id string that the id generator never hands out
GhostId == 0

\* requests NewClient is called with (name, birthday, score)
NewClientReqs ==
    { [name |-> "ann", birthday |-> 0, score |-> 0],
      [name |-> "bob", birthday |-> 7, score |-> 1] }

\* the score delta the t-th NewMatch invocation is called with: distinct
\* for concurrent invocations, of both signs
DeltaOf(t) == IF t % 2 = 1 THEN t + 1 ELSE 0 - t

VARIABLES
    clients,      \* committed `clients` table: id -> row, for the ids that have a row
    initScore,    \* id -> the score its NewClient request carried, for the same ids
    nextId,       \* the next id utils.SecureID hands out
    matches,      \* committed `client_matches` table: set of rows
    nextMatchId,  \* AUTO_INCREMENT counter of client_matches
    pc,           \* position of each NewMatch invocation
    txReq,        \* the request of each NewMatch invocation
    tx,           \* the *sqlx.Tx of each invocation
    failed,       \* the statement of the invocation that returned an error:
                  \* "none", "insert" or "update"
    resp,         \* the response of the last GetClients/QueryClients/Sort call,
                  \* while no handler has returned since; NoResp otherwise
    ctxDone,      \* the context given to New is done: shutdown is signalled
    cleanupPc,    \* position of the cleanup goroutine: "wait", "close" or "exit"
    dbCloses      \* the number of calls of s.db.Close() so far

vars == <<clients, initScore, nextId, matches, nextMatchId, pc, txReq, tx, failed, resp,
          ctxDone, cleanupPc, dbCloses>>

storeVars == <<clients, initScore, nextId, matches, nextMatchId>>
txVars == <<pc, txReq, tx, failed>>
lifeVars == <<ctxDone, cleanupPc, dbCloses>>

----------------------------------------------------------------------------
\* helpers

Range(s) == { s[i] : i \in 1..Len(s) }

RECURSIVE SumScores(_)
SumScores(S) ==
    IF S = {} THEN 0
    ELSE LET m == CHOOSE x \in S : TRUE
         IN  m.score + SumScores(S \ {m})

MatchesOf(c) == { m \in matches : m.client_id = c }

NoReq == [client_id |-> GhostId, score |-> 0]

\* the service process is running: it has not died
Alive == \A t \in Tx : pc[t] # "crashed"

\* s.db has not been closed: a statement, BeginTxx or Commit on a closed
\* *sqlx.DB fails
DbOpen == dbCloses = 0

Response(op, req, err, ids, recs, sql, args) ==
    [op |-> op, req |-> req, err |-> err, ids |-> ids, clients |-> recs,
     sql |-> sql, args |-> args]

NoResp == Response("none", <<>>, FALSE, <<>>, <<>>, <<>>, <<>>)

----------------------------------------------------------------------------
\* NewClient

\* sql.NullTime written for the birthday column: the column is left out of
\* the INSERT (NULL) when the request's birthday is 0
BirthdayColumn(birthday) ==
    IF birthday # 0 THEN [valid |-> TRUE, time |-> birthday]
    ELSE [valid |-> FALSE, time |-> 0]

\* the INSERT without its score column: the row gets the column's default
NewRow_NoScore(req, now) ==
    [name |-> req.name, birthday |-> BirthdayColumn(req.birthday),
     score |-> 0, created_at |-> [valid |-> TRUE, time |-> now]]

\* the row the INSERT of NewClient stores; created_at is defaulted by the
\* storage layer (a logical timestamp: the number of the insert)
NewRow(req, now) ==
    [name |-> req.name, birthday |-> BirthdayColumn(req.birthday),
     score |-> req.score, created_at |-> [valid |-> TRUE, time |-> now]]

\* utils.SecureID: a fresh id, never handed out before
SecureID == nextId

\* what NewClient returns: ExecContext's error, or the generated id
NewClientResponse(req, id, ok) ==
    IF ok THEN Response("NewClient", req, FALSE, <<id>>, <<>>, <<>>, <<>>)
    ELSE Response("NewClient", req, TRUE, <<>>, <<>>, <<>>, <<>>)

\* a failed INSERT stores nothing; the id generated for it was shown to
\* nobody, so the generator's next id stands for it as well
NewClient(req, ok, max) ==
    /\ Alive
    /\ ok => DbOpen
    /\ nextId <= max
    /\ LET id == SecureID IN
       IF ok
       THEN /\ nextId' = nextId + 1
            /\ clients' = [i \in DOMAIN clients \cup {id} |->
                              IF i = id THEN NewRow(req, nextId) ELSE clients[i]]
            /\ initScore' = [i \in DOMAIN initScore \cup {id} |->
                              IF i = id THEN req.score ELSE initScore[i]]
            /\ resp' = NoResp
       ELSE /\ UNCHANGED <<clients, initScore, nextId>>
            /\ resp' = NoResp
    /\ UNCHANGED <<matches, nextMatchId>>
    /\ UNCHANGED txVars
    /\ UNCHANGED lifeVars

----------------------------------------------------------------------------
\* NewMatch

\* a transaction handle: opened by BeginTxx, done once Commit or Rollback
\* has finalized it; rows and score are its uncommitted writes (score is
\* <<id, new score>> and stands for the exclusive lock of that row too)
NoTx == [opened |-> FALSE, done |-> FALSE, finals |-> 0, rows |-> {}, score |-> <<>>]
OpenTx == [NoTx EXCEPT !.opened = TRUE]

InFlight(t) == pc[t] \in {"insert", "update", "rollback", "commit"}
Quiescent == \A t \in Tx : ~InFlight(t)

\* the transactions holding the exclusive lock of row c
LockHolders(c) == { t \in Tx : tx[t].score # <<>> /\ tx[t].score[1] = c }

\* the statement of session t (0: a single-statement handler) can lock row c
RowLockFree(c, t) == LockHolders(c) \subseteq {t}

\* the INSERT run outside the transaction: visible at once
MatchesAfterInsert_Autocommit(ms, row) == ms \cup {row}

\* committed client_matches as other sessions see it after a transaction's INSERT
MatchesAfterInsert(ms, row) == ms

\* SET score = ? in place of score = score + ?
ScoreAfterUpdate_Overwrite(score, delta) == delta

\* score = score + ?
ScoreAfterUpdate(score, delta) == score + delta

\* the failure paths without their tx.Rollback()
TxRollback_Missing(h) == h

\* tx.Rollback(): the first finalization discards the writes; on a finalized
\* transaction it is ErrTxDone
TxRollback(h) ==
    IF h.done THEN h
    ELSE [h EXCEPT !.done = TRUE, !.finals = @ + 1, !.rows = {}, !.score = <<>>]

\* tx.Commit(): the first finalization ends the transaction; on a finalized
\* transaction it is ErrTxDone
TxCommit(h) ==
    IF h.done THEN h
    ELSE [h EXCEPT !.done = TRUE, !.finals = @ + 1, !.rows = {}, !.score = <<>>]

\* where the invocation goes when a statement fails
AfterInsertFail == "rollback"
AfterUpdateFail == "rollback"

\* NewMatch without its deferred tx.Commit()
AfterReturn_NoCommit == "done"

\* return: the deferred tx.Commit() runs before the caller gets the response
AfterReturn == "commit"

\* tx, err := s.db.BeginTxx(ctx, nil)
Begin(t, c, ok) ==
    /\ Alive
    /\ ok => DbOpen
    /\ pc[t] = "idle"
    /\ \A u \in Tx : u < t => pc[u] # "idle"
    /\ IF ok
       THEN /\ pc' = [pc EXCEPT ![t] = "insert"]
            /\ txReq' = [txReq EXCEPT ![t] = [client_id |-> c, score |-> DeltaOf(t)]]
            /\ tx' = [tx EXCEPT ![t] = OpenTx]
            /\ UNCHANGED resp
       ELSE /\ pc' = [pc EXCEPT ![t] = "done"]
            /\ resp' = NoResp
            /\ UNCHANGED <<txReq, tx>>
    /\ UNCHANGED failed
    /\ UNCHANGED storeVars
    /\ UNCHANGED lifeVars

\* tx.Exec("INSERT INTO client_matches (client_id, score) VALUES (?, ?)", ...)
Insert(t, ok) ==
    /\ pc[t] = "insert"
    /\ ok => DbOpen
    /\ IF ok
       THEN LET row == [id |-> nextMatchId, client_id |-> txReq[t].client_id,
                        score |-> txReq[t].score] IN
            /\ tx' = [tx EXCEPT ![t].rows = @ \cup {row}]
            /\ matches' = MatchesAfterInsert(matches, row)
            /\ nextMatchId' = nextMatchId + 1
            /\ pc' = [pc EXCEPT ![t] = "update"]
            /\ UNCHANGED failed
       ELSE /\ failed' = [failed EXCEPT ![t] = "insert"]
            /\ pc' = [pc EXCEPT ![t] = AfterInsertFail]
            /\ UNCHANGED <<tx, matches, nextMatchId>>
    /\ UNCHANGED <<clients, initScore, nextId, txReq, resp>>
    /\ UNCHANGED lifeVars

\* an UPDATE that must change a row: result.RowsAffected() = 0 is an error
RowsAffectedChecked_Strict == TRUE

\* "_, err = tx.Exec(...)": the result of the UPDATE is dropped, the number
\* of rows it changed is never looked at
RowsAffectedChecked == FALSE

\* tx.Exec("UPDATE clients SET score = score + ? WHERE id = ?", ...): waits
\* for the row's lock, reads the latest committed score and writes the new
\* one; no row with that id: nothing to lock or write, and no error
Update(t, ok) ==
    /\ pc[t] = "update"
    /\ ok => DbOpen
    /\ LET c == txReq[t].client_id IN
       IF ok /\ ~(RowsAffectedChecked /\ c \notin DOMAIN clients)
       THEN /\ RowLockFree(c, t)
            /\ tx' = [tx EXCEPT ![t].score =
                   IF c \in DOMAIN clients
                   THEN <<c, ScoreAfterUpdate(clients[c].score, txReq[t].score)>>
                   ELSE <<>>]
            /\ pc' = [pc EXCEPT ![t] = AfterReturn]
            /\ UNCHANGED failed
       ELSE /\ failed' = [failed EXCEPT ![t] = "update"]
            /\ pc' = [pc EXCEPT ![t] = AfterUpdateFail]
            /\ UNCHANGED tx
    /\ UNCHANGED <<txReq, resp>>
    /\ UNCHANGED storeVars
    /\ UNCHANGED lifeVars

\* _ = tx.Rollback(); return nil, err
Rollback(t) ==
    /\ pc[t] = "rollback"
    /\ tx' = [tx EXCEPT ![t] = TxRollback(@)]
    /\ pc' = [pc EXCEPT ![t] = AfterReturn]
    /\ UNCHANGED <<txReq, failed, resp>>
    /\ UNCHANGED storeVars
    /\ UNCHANGED lifeVars

\* the clients table after a transaction's score write is committed
CommitScore(cl, ps) ==
    IF ps = <<>> \/ ps[1] \notin DOMAIN cl THEN cl
    ELSE [cl EXCEPT ![ps[1]].score = ps[2]]

\* the id NewMatch returns: result.LastInsertId() of its INSERT
MatchIdOf(t) == (CHOOSE r \in tx[t].rows : TRUE).id

\* what NewMatch returns: the error of the failed statement, or the match id
NewMatchResponse(t) ==
    IF failed[t] # "none" THEN Response("NewMatch", txReq[t], TRUE, <<>>, <<>>, <<>>, <<>>)
    ELSE Response("NewMatch", txReq[t], FALSE, <<MatchIdOf(t)>>, <<>>, <<>>, <<>>)

\* defer tx.Commit(): runs on every return after BeginTxx succeeded; its
\* error is discarded.  On a finalized transaction it is ErrTxDone and does
\* nothing; otherwise it either commits the transaction's writes or fails
\* and the writes are discarded.  Then the caller gets the response.
DeferredCommit(t, ok) ==
    /\ pc[t] = "commit"
    /\ ok => DbOpen
    /\ IF ~tx[t].done /\ ok
       THEN /\ matches' = matches \cup tx[t].rows
            /\ clients' = CommitScore(clients, tx[t].score)
       ELSE UNCHANGED <<clients, matches>>
    /\ tx' = [tx EXCEPT ![t] = TxCommit(@)]
    /\ pc' = [pc EXCEPT ![t] = "done"]
    /\ resp' = NoResp
    /\ UNCHANGED <<initScore, nextId, nextMatchId, txReq, failed>>
    /\ UNCHANGED lifeVars


\* the process dies between the steps of a NewMatch: the server rolls back
\* every open transaction, no invocation returns and no handler runs any more
Crash ==
    /\ \E t \in Tx : InFlight(t)
    /\ pc' = [t \in Tx |-> "crashed"]
    /\ tx' = [t \in Tx |-> NoTx]
    /\ txReq' = [t \in Tx |-> NoReq]
    /\ failed' = [t \in Tx |-> "none"]
    /\ resp' = NoResp
    /\ UNCHANGED storeVars
    /\ UNCHANGED lifeVars

----------------------------------------------------------------------------
\* DeleteClient, DeleteAllClients

\* a delete that takes the match rows of the deleted clients with it
MatchesAfterDelete_Cascade(ms, ids) == { m \in ms : m.client_id \notin ids }

\* client_matches after a DELETE FROM clients: the handlers run no statement
\* on client_matches, the rows of the deleted clients stay
MatchesAfterDelete(ms, ids) == ms

\* the DELETE without its WHERE clause
RowsAfterDelete_All(rows, id) == [i \in {} |-> rows[i]]

\* the rows left by "DELETE FROM clients WHERE id = ?": no row has that id,
\* nothing is deleted
RowsAfterDelete(rows, id) == [i \in DOMAIN rows \ {id} |-> rows[i]]

\* "DELETE FROM clients WHERE id = ?": waits for the row's lock; ok is the
\* outcome of ExecContext, the only error the handler returns
DeleteClient(id, ok) ==
    /\ Alive
    /\ ok => DbOpen
    /\ RowLockFree(id, 0)
    /\ IF ok
       THEN /\ clients' = RowsAfterDelete(clients, id)
            /\ initScore' = RowsAfterDelete(initScore, id)
            /\ resp' = NoResp
       ELSE /\ UNCHANGED <<clients, initScore>>
            /\ resp' = NoResp
    /\ matches' = MatchesAfterDelete(matches, {id})
    /\ UNCHANGED <<nextId, nextMatchId>>
    /\ UNCHANGED txVars
    /\ UNCHANGED lifeVars

\* "DELETE FROM clients": waits for the lock of every row
DeleteAllClients(ok) ==
    /\ Alive
    /\ ok => DbOpen
    /\ \A c \in DOMAIN clients : RowLockFree(c, 0)
    /\ IF ok
       THEN /\ clients' = [i \in {} |-> 0]
            /\ initScore' = [i \in {} |-> 0]
            /\ resp' = NoResp
       ELSE /\ UNCHANGED <<clients, initScore>>
            /\ resp' = NoResp
    /\ matches' = MatchesAfterDelete(matches, DOMAIN clients)
    /\ UNCHANGED <<nextId, nextMatchId>>
    /\ UNCHANGED txVars
    /\ UNCHANGED lifeVars

----------------------------------------------------------------------------
\* statements: a statement is a sequence of tokens with "?" placeholders,
\* and the list of its bound arguments

\* sq.Placeholders(count): "?,?,...", empty for count < 1
RECURSIVE Placeholders(_)
Placeholders(count) ==
    IF count < 1 THEN <<>>
    ELSE IF count = 1 THEN <<"?">>
    ELSE <<"?", ",">> \o Placeholders(count - 1)

CountPlaceholders(sql) == Cardinality({ i \in 1..Len(sql) : sql[i] = "?" })

\* a WHERE part: its text, its arguments, and what it means to the engine
WherePart(col, op, sql, args) == [col |-> col, op |-> op, sql |-> sql, args |-> args]

\* SelectBuilder.ToSql: the parts joined by AND after WHERE, then ORDER BY;
\* the arguments in the order of the parts
RECURSIVE JoinParts(_)
JoinParts(parts) ==
    IF parts = <<>> THEN <<>>
    ELSE IF Len(parts) = 1 THEN parts[1].sql
    ELSE parts[1].sql \o <<"AND">> \o JoinParts(Tail(parts))

RECURSIVE PartArgs(_)
PartArgs(parts) ==
    IF parts = <<>> THEN <<>> ELSE parts[1].args \o PartArgs(Tail(parts))

ToSql(cols, table, parts, orderBy) ==
    [sql  |-> <<"SELECT", cols, "FROM", table>>
              \o (IF parts = <<>> THEN <<>> ELSE <<"WHERE">> \o JoinParts(parts))
              \o orderBy,
     args |-> PartArgs(parts)]

\* MySQL rejects an empty IN list
SyntaxOK(sql) == \A i \in 1..(Len(sql) - 1) : ~(sql[i] = "(" /\ sql[i + 1] = ")")

\* the statement is prepared and executed: a syntax error, or a number of
\* arguments other than the number of placeholders, is an error
ExecOK(stmt) == SyntaxOK(stmt.sql) /\ CountPlaceholders(stmt.sql) = Len(stmt.args)

\* the rows of the committed clients table in the storage order `order`
RowsIn(order) == [i \in 1..Len(order) |-> [id |-> order[i]] @@ clients[order[i]]]

\* the rows of a lookup by primary key come in primary key order
RECURSIVE Ascending(_)
Ascending(S) ==
    IF S = {} THEN <<>>
    ELSE LET m == CHOOSE x \in S : \A y \in S : x <= y
         IN  <<m>> \o Ascending(S \ {m})

Reverse(s) == [i \in 1..Len(s) |-> s[Len(s) + 1 - i]]

\* the orders a scan of the table yields rows of equal sort key in: the
\* statement leaves it open
StorageOrders == { Ascending(DOMAIN clients), Reverse(Ascending(DOMAIN clients)) }

----------------------------------------------------------------------------
\* GetClients

\* time.Time{}.UnixNano(): the zero Time is outside the int64 nanosecond
\* range and wraps to -6795364578871345152 (kept here in units of 10^12)
ZeroTimeUnixNano == -6795364

\* v.Birthday.Time.UnixNano(), v.CreatedAt.Time.UnixNano()
NullTimeUnixNano(nt) == IF nt.valid THEN nt.time ELSE ZeroTimeUnixNano

\* the pb.Client built from a scanned row
ClientRecord(row) ==
    [id |-> row.id, name |-> row.name, birthday |-> NullTimeUnixNano(row.birthday),
     score |-> row.score, created_at |-> NullTimeUnixNano(row.created_at)]

\* id IN (?,?,...)
InPart(ids) ==
    WherePart("id", "in", <<"id", "IN", "(">> \o Placeholders(Len(ids)) \o <<")">>, ids)

GetClientsStmt(ids) ==
    ToSql("id, name, birthday, score, created_at", "clients", <<InPart(ids)>>, <<>>)

\* the SELECT without its WHERE
InMatches_All(row, args) == TRUE

\* the row is selected by id IN (args)
InMatches(row, args) == row.id \in Range(args)

\* (a read changes nothing, so a read that follows a read returns what it
\* would have returned in its place: only the first read after another
\* handler's step is taken, which reaches the same states)
GetClients(ids) ==
    /\ Alive
    /\ resp = NoResp
    /\ LET stmt == GetClientsStmt(ids)
           rows == SelectSeq(RowsIn(Ascending(DOMAIN clients)),
                             LAMBDA r : InMatches(r, stmt.args))
       IN  resp' = IF DbOpen /\ ExecOK(stmt)
                   THEN Response("GetClients", ids, FALSE, <<>>,
                                 [i \in 1..Len(rows) |-> ClientRecord(rows[i])],
                                 stmt.sql, stmt.args)
                   ELSE Response("GetClients", ids, TRUE, <<>>, <<>>, stmt.sql, stmt.args)
    /\ UNCHANGED storeVars
    /\ UNCHANGED txVars
    /\ UNCHANGED lifeVars

----------------------------------------------------------------------------
\* QueryClients

Nil == <<>>

NoFilter == [id |-> Nil, name |-> Nil, birthday |-> Nil, score |-> Nil, created_at |-> Nil]

\* the Where method of the request's range filters: one clause on the
\* column, its values bound as arguments
OpText(op) ==
    CASE op = "eq" -> "="
      [] op = "lt" -> "<"
      [] op = "le" -> "<="
      [] op = "gt" -> ">"
      [] op = "ge" -> ">="

RangeWhere(col, f) ==
    IF f.op = "between"
    THEN WherePart(col, f.op, <<col, "BETWEEN", "?", "AND", "?">>, f.vals)
    ELSE WherePart(col, f.op, <<col, OpText(f.op), "?">>, <<f.vals[1]>>)

\* rq.Where("id", req.Id.Value)
IdPart(v) == WherePart("id", "bool", <<"id">>, <<v>>)

\* rq.Where("name LIKE ?", req.Name.Value)
NamePart(v) == WherePart("name", "like", <<"name", "LIKE", "?">>, <<v>>)

\* the WHERE parts in the order the handler adds them
QueryParts(req) ==
       (IF req.id # Nil THEN <<IdPart(req.id[1])>> ELSE <<>>)
    \o (IF req.name # Nil THEN <<NamePart(req.name[1])>> ELSE <<>>)
    \o (IF req.birthday # Nil THEN <<RangeWhere("birthday", req.birthday[1])>> ELSE <<>>)
    \o (IF req.score # Nil THEN <<RangeWhere("score", req.score[1])>> ELSE <<>>)
    \o (IF req.created_at # Nil THEN <<RangeWhere("created_at", req.created_at[1])>> ELSE <<>>)

QueryClientsStmt(req) ==
    ToSql("id", "clients", QueryParts(req), <<"ORDER BY", "score", "DESC">>)

\* LIKE with a pattern that is "%" or has no wildcard
Like(s, pattern) == pattern = "%" \/ s = pattern

Compare(op, v, args) ==
    CASE op = "eq" -> v = args[1]
      [] op = "lt" -> v < args[1]
      [] op = "le" -> v <= args[1]
      [] op = "gt" -> v > args[1]
      [] op = "ge" -> v >= args[1]
      [] op = "between" -> args[1] <= v /\ v <= args[2]

\* the row satisfies the part; a comparison with NULL selects nothing
PartMatches(row, part) ==
    CASE part.col = "name" -> Like(row.name, part.args[1])
      [] part.col = "score" -> Compare(part.op, row.score, part.args)
      [] part.col = "birthday" ->
            row.birthday.valid /\ Compare(part.op, row.birthday.time, part.args)
      [] part.col = "created_at" ->
            row.created_at.valid /\ Compare(part.op, row.created_at.time, part.args)
      [] OTHER -> TRUE

\* ORDER BY score ASC
ScoreBefore_Asc(a, b) == a.score < b.score

\* ORDER BY score DESC: a comes before b
ScoreBefore(a, b) == a.score > b.score

RECURSIVE InsertByScore(_, _)
InsertByScore(x, s) ==
    IF s = <<>> THEN <<x>>
    ELSE IF ScoreBefore(x, Head(s)) THEN <<x>> \o s
    ELSE <<Head(s)>> \o InsertByScore(x, Tail(s))

RECURSIVE OrderByScoreDesc(_)
OrderByScoreDesc(rows) ==
    IF rows = <<>> THEN <<>>
    ELSE InsertByScore(Head(rows), OrderByScoreDesc(Tail(rows)))

QueryClients(req, order) ==
    /\ Alive
    /\ resp = NoResp
    /\ LET stmt == QueryClientsStmt(req)
           parts == QueryParts(req)
           rows == SelectSeq(RowsIn(order),
                             LAMBDA r : \A i \in 1..Len(parts) : PartMatches(r, parts[i]))
           sorted == OrderByScoreDesc(rows)
       IN  resp' = IF DbOpen /\ ExecOK(stmt)
                   THEN Response("QueryClients", req, FALSE,
                                 [i \in 1..Len(sorted) |-> sorted[i].id], <<>>,
                                 stmt.sql, stmt.args)
                   ELSE Response("QueryClients", req, TRUE, <<>>, <<>>, stmt.sql, stmt.args)
    /\ UNCHANGED storeVars
    /\ UNCHANGED txVars
    /\ UNCHANGED lifeVars

----------------------------------------------------------------------------
\* Sort

\* the strings the items are drawn from, in ascending byte order
Words == <<"a", "ab", "b">>

StrRank(w) == CHOOSE i \in 1..Len(Words) : Words[i] = w

\* x < y on strings, the order of sort.Strings
StrLess(x, y) == StrRank(x) < StrRank(y)

RECURSIVE InsertSorted(_, _)
InsertSorted(sorted, x) ==
    IF sorted = <<>> THEN <<x>>
    ELSE IF StrLess(Head(sorted), x) THEN <<Head(sorted)>> \o InsertSorted(Tail(sorted), x)
    ELSE <<x>> \o sorted

\* sort.Strings(items)
RECURSIVE SortStrings(_)
SortStrings(items) ==
    IF items = <<>> THEN <<>>
    ELSE InsertSorted(SortStrings(Tail(items)), Head(items))

\* the loop comparing every item with the first one
NextPivot_First(pivot, item) == pivot

\* pivot = item
NextPivot(pivot, item) == item

\* for _, item := range items: an item that differs from the pivot is
\* appended and becomes the pivot
RECURSIVE Collapse(_, _, _)
Collapse(items, pivot, uniqueItems) ==
    IF items = <<>> THEN uniqueItems
    ELSE IF Head(items) # pivot
         THEN Collapse(Tail(items), NextPivot(pivot, Head(items)),
                       Append(uniqueItems, Head(items)))
         ELSE Collapse(Tail(items), pivot, uniqueItems)

\* pivot := items[0] on an empty slice: index out of range, the handler panics
SortPanics(req) == req.remove_duplicates /\ Len(req.items) = 0

\* the items Sort returns
SortItems(req) ==
    LET items == SortStrings(req.items) IN
    IF ~req.remove_duplicates THEN items
    ELSE Collapse(items, items[1], <<items[1]>>)

\* Sort works on the request alone.  Its panic is not recovered: the
\* process dies as in Crash and the caller gets a failure.  The returned
\* items are the ids field of the response.
Sort(req) ==
    /\ Alive
    /\ resp = NoResp
    /\ IF SortPanics(req)
       THEN /\ resp' = Response("Sort", req, TRUE, <<>>, <<>>, <<>>, <<>>)
            /\ pc' = [t \in Tx |-> "crashed"]
            /\ tx' = [t \in Tx |-> NoTx]
            /\ txReq' = [t \in Tx |-> NoReq]
            /\ failed' = [t \in Tx |-> "none"]
       ELSE /\ resp' = Response("Sort", req, FALSE, SortItems(req), <<>>, <<>>, <<>>)
            /\ UNCHANGED txVars
    /\ UNCHANGED storeVars
    /\ UNCHANGED lifeVars

----------------------------------------------------------------------------

Init ==
    /\ clients = [i \in {} |-> 0]
    /\ initScore = [i \in {} |-> 0]
    /\ nextId = 1
    /\ matches = {}
    /\ nextMatchId = 1
    /\ pc = [t \in Tx |-> "idle"]
    /\ txReq = [t \in Tx |-> NoReq]
    /\ tx = [t \in Tx |-> NoTx]
    /\ failed = [t \in Tx |-> "none"]
    /\ resp = NoResp
    /\ ctxDone = FALSE
    /\ cleanupPc = "wait"
    /\ dbCloses = 0

\* client ids a caller can name: the ids handed out so far, and one that never is
KnownIds == (1..(nextId - 1)) \cup {GhostId}

Next ==
    \/ \E req \in NewClientReqs, ok \in BOOLEAN : NewClient(req, ok, MaxTxClients)
    \/ \E t \in Tx, c \in KnownIds, ok \in BOOLEAN : Begin(t, c, ok)
    \/ \E t \in Tx, ok \in BOOLEAN : Insert(t, ok)
    \/ \E t \in Tx, ok \in BOOLEAN : Update(t, ok)
    \/ \E t \in Tx : Rollback(t)
    \/ \E t \in Tx, ok \in BOOLEAN : DeferredCommit(t, ok)
    \/ Crash
    \/ \E id \in KnownIds, ok \in BOOLEAN : DeleteClient(id, ok)
    \/ \E ok \in BOOLEAN : DeleteAllClients(ok)

Spec == Init /\ [][Next]_vars

\* the filters QueryClients is called with: every combination of populated
\* fields
IdFilters == {Nil, <<1>>}
NameFilters == {Nil, <<"ann">>}
BirthdayFilters == {Nil, <<[op |-> "between", vals |-> <<1, 9>>]>>}
ScoreFilters == {Nil, <<[op |-> "ge", vals |-> <<1>>]>>}
CreatedAtFilters == {Nil, <<[op |-> "lt", vals |-> <<2>>]>>}

QueryReqs ==
    [id : IdFilters, name : NameFilters, birthday : BirthdayFilters,
     score : ScoreFilters, created_at : CreatedAtFilters]

\* the id lists GetClients is called with: up to n ids, repeats included;
\* the order of the ids in the request is immaterial to IN (...), so the
\* lists are taken in ascending order
RECURSIVE IdLists(_, _)
IdLists(S, n) ==
    IF n = 0 THEN {<<>>}
    ELSE LET shorter == IdLists(S, n - 1)
         IN  shorter \cup { Append(s, x) : s \in shorter, x \in S }

SortedIdLists(S, n) ==
    { s \in IdLists(S, n) : \A i \in 1..(Len(s) - 1) : s[i] <= s[i + 1] }

\* the invocations of NewMatch that run against the read handlers
ReadTx == {1}

\* the lists of up to n items
RECURSIVE ItemLists(_)
ItemLists(n) ==
    IF n = 0 THEN {<<>>}
    ELSE LET shorter == ItemLists(n - 1)
         IN  shorter \cup { Append(s, Words[i]) : s \in shorter, i \in 1..Len(Words) }

\* the requests Sort is called with
SortReqs == [items : ItemLists(MaxItems), remove_duplicates : BOOLEAN]

\* the Sort requests that run against the store
SortReqsRead == [items : {<<"b", "a", "b">>}, remove_duplicates : BOOLEAN]

NextRead ==
    \/ \E req \in NewClientReqs, ok \in BOOLEAN : NewClient(req, ok, MaxClients)
    \/ \E t \in ReadTx, c \in KnownIds, ok \in BOOLEAN : Begin(t, c, ok)
    \/ \E t \in ReadTx, ok \in BOOLEAN : Insert(t, ok)
    \/ \E t \in ReadTx, ok \in BOOLEAN : Update(t, ok)
    \/ \E t \in ReadTx : Rollback(t)
    \/ \E t \in ReadTx, ok \in BOOLEAN : DeferredCommit(t, ok)
    \/ Crash
    \/ \E id \in KnownIds, ok \in BOOLEAN : DeleteClient(id, ok)
    \/ \E ok \in BOOLEAN : DeleteAllClients(ok)
    \/ \E ids \in SortedIdLists(KnownIds, MaxListLen) : GetClients(ids)
    \/ \E req \in QueryReqs, order \in StorageOrders : QueryClients(req, order)
    \/ \E req \in SortReqsRead : Sort(req)

SpecRead == Init /\ [][NextRead]_vars

\* the context given to New is cancelled: the service is told to shut down
Shutdown ==
    /\ ~ctxDone
    /\ ctxDone' = TRUE
    /\ UNCHANGED <<cleanupPc, dbCloses>>
    /\ UNCHANGED <<storeVars, txVars, resp>>

\* a cleanup that does not wait for the context
CtxDoneReceived_NoWait == TRUE

\* <-ctx.Done() can return: the context is done
CtxDoneReceived == ctxDone

\* cleanup: <-ctx.Done() returns once the context is done
CleanupWake ==
    /\ Alive
    /\ cleanupPc = "wait"
    /\ CtxDoneReceived
    /\ cleanupPc' = "close"
    /\ UNCHANGED <<ctxDone, dbCloses>>
    /\ UNCHANGED <<storeVars, txVars, resp>>

\* cleanup: s.db.Close(), then the goroutine ends
CleanupClose ==
    /\ Alive
    /\ cleanupPc = "close"
    /\ dbCloses' = dbCloses + 1
    /\ cleanupPc' = "exit"
    /\ UNCHANGED ctxDone
    /\ UNCHANGED <<storeVars, txVars, resp>>

\* the handlers running while the service is shut down
NextLife ==
    \/ Shutdown
    \/ CleanupWake
    \/ CleanupClose
    \/ \E req \in NewClientReqs, ok \in BOOLEAN : NewClient(req, ok, MaxTxClients)
    \/ \E t \in ReadTx, c \in KnownIds, ok \in BOOLEAN : Begin(t, c, ok)
    \/ \E t \in ReadTx, ok \in BOOLEAN : Insert(t, ok)
    \/ \E t \in ReadTx, ok \in BOOLEAN : Update(t, ok)
    \/ \E t \in ReadTx : Rollback(t)
    \/ \E t \in ReadTx, ok \in BOOLEAN : DeferredCommit(t, ok)
    \/ Crash
    \/ \E id \in KnownIds, ok \in BOOLEAN : DeleteClient(id, ok)
    \/ \E ok \in BOOLEAN : DeleteAllClients(ok)
    \/ \E ids \in SortedIdLists(KnownIds, 1) : GetClients(ids)
    \/ \E order \in StorageOrders : QueryClients(NoFilter, order)
    \/ \E req \in SortReqsRead : Sort(req)

\* the Go scheduler runs a runnable goroutine of a live process: cleanup,
\* started by New with "go", takes each of its steps once it can
SpecLife ==
    Init /\ [][NextLife]_vars /\ WF_vars(CleanupWake) /\ WF_vars(CleanupClose)

NextSort == \E req \in SortReqs : Sort(req)

SpecSort == Init /\ [][NextSort]_vars

----------------------------------------------------------------------------
\* properties

\* the score of an existing client is its creation score plus its match rows
Consistent(c) == clients[c].score = initScore[c] + SumScores(MatchesOf(c))

\* NewMatch invocation t has returned a success response
ReturnedOk(t) == pc[t] = "done" /\ tx[t].opened /\ failed[t] = "none"

\* invocation t takes its last step with this transition: the deferred
\* Commit runs and the caller gets the response
Returns(t) == pc[t] = "commit" /\ pc'[t] = "done"

\* C1: whenever no NewMatch transaction is in flight, every row of clients
\* has score = its creation score + the sum of score over the client_matches
\* rows that reference it
C1_ScoreInvariant == Quiescent => \A c \in DOMAIN clients : Consistent(c)

C1_Witness ==
    /\ Quiescent
    /\ \E c \in DOMAIN clients : MatchesOf(c) # {}
    /\ \E t \in Tx : pc[t] = "done" /\ failed[t] = "update"

\* C2: when every NewMatch invocation was for the same existing client and
\* all of them returned success, the client's score is its creation score
\* plus the sum of all the deltas and the client has exactly one match row per
\* invocation
C2_NoLostUpdates ==
    \A c \in DOMAIN clients :
        (\A t \in Tx : ReturnedOk(t) /\ txReq[t].client_id = c)
        => /\ clients[c].score = initScore[c] + SumScores({ txReq[t] : t \in Tx })
           /\ Cardinality(MatchesOf(c)) = Cardinality(Tx)

\* C3: when NewMatch returns a success response for an existing client, its
\* transaction is committed: the match row with the returned id is in
\* client_matches and the client's score is larger by exactly the delta
C3_SuccessIsCommitted ==
    [][\A t \in Tx :
          (Returns(t) /\ ~NewMatchResponse(t).err /\ txReq[t].client_id \in DOMAIN clients)
          => /\ \E m \in matches' : m.id = NewMatchResponse(t).ids[1]
             /\ clients'[txReq[t].client_id].score
                   = clients[txReq[t].client_id].score + txReq[t].score]_vars

\* C4: an invocation whose INSERT or UPDATE failed returns an error, and none
\* of its steps changes clients or client_matches: the steps before its
\* Commit never do, and its Commit does not when a statement has failed
C4_FailureLeavesNoWrite ==
    [][\A t \in Tx :
          /\ (pc'[t] # pc[t] /\ (pc[t] # "commit" \/ failed[t] # "none"))
                => (clients' = clients /\ matches' = matches)
          /\ (Returns(t) /\ failed[t] # "none") => NewMatchResponse(t).err]_vars

C4_Witness == \E t \in Tx : pc[t] = "done" /\ failed[t] = "update" /\ tx[t].finals = 1

\* C5: in every state, also while a NewMatch is between its steps or after a
\* crash between them, the committed tables a reader sees hold no half-applied
\* match: for each existing client the score increments and the match rows
\* agree
C5_NoHalfAppliedMatch ==
    \A c \in DOMAIN clients : clients[c].score - initScore[c] = SumScores(MatchesOf(c))

C5_Witness ==
    /\ resp.op = "GetClients"
    /\ ~resp.err
    /\ \E t \in Tx : /\ pc[t] = "commit"
                     /\ ~tx[t].done
                     /\ tx[t].score # <<>>
                     /\ tx[t].score[1] \in { resp.clients[i].id : i \in 1..Len(resp.clients) }

\* C6: a transaction is finalized at most once, and when an invocation that
\* opened one has returned it has been finalized exactly once
C6_ExactlyOneFinalization ==
    \A t \in Tx :
        /\ tx[t].finals <= 1
        /\ (pc[t] = "done" /\ tx[t].opened) => (tx[t].finals = 1 /\ tx[t].done)

C6_Witness ==
    /\ \E t \in Tx : pc[t] = "done" /\ failed[t] = "insert" /\ tx[t].finals = 1
    /\ \E t \in Tx : pc[t] = "done" /\ failed[t] = "none" /\ tx[t].finals = 1

\* C7: GetClients with an empty id list returns an empty list and no error
C7_EmptyGetIsEmpty ==
    (resp.op = "GetClients" /\ resp.req = <<>>) => (~resp.err /\ resp.clients = <<>>)

\* C8: GetClients returns one record for each requested id that has a row,
\* carrying that row's name and score, and nothing else; a request that
\* names an id without a row is not an error
C8_GetReturnsExactlyExisting ==
    resp.op = "GetClients" =>
        LET got == resp.clients
            want == Range(resp.req) \cap DOMAIN clients IN
        /\ { got[i].id : i \in 1..Len(got) } = want
        /\ Len(got) = Cardinality(want)
        /\ \A i \in 1..Len(got) :
              /\ got[i].name = clients[got[i].id].name
              /\ got[i].score = clients[got[i].id].score
        /\ (Range(resp.req) \ DOMAIN clients # {}) => ~resp.err

C8_Witness ==
    /\ resp.op = "GetClients"
    /\ Len(resp.clients) = 1
    /\ Range(resp.req) \ DOMAIN clients # {}
    /\ DOMAIN clients \ Range(resp.req) # {}

\* the number of arguments a populated filter binds
FilterArgs(f) == IF f = Nil THEN <<>> ELSE IF f[1].op = "between" THEN f[1].vals ELSE <<f[1].vals[1]>>

\* C9: the statement QueryClients generates has as many placeholders as
\* bound arguments, and the arguments are those of the populated filters in
\* the order id, name, birthday, score, created_at
C9_PlaceholdersMatchArgs ==
    resp.op = "QueryClients" =>
        /\ CountPlaceholders(resp.sql) = Len(resp.args)
        /\ resp.args = resp.req.id \o resp.req.name \o FilterArgs(resp.req.birthday)
                          \o FilterArgs(resp.req.score) \o FilterArgs(resp.req.created_at)

\* C10: QueryClients without filters returns the id of every row of clients
\* once, in an order along which the scores do not increase
C10_QueryAllByScore ==
    (resp.op = "QueryClients" /\ resp.req = NoFilter) =>
        /\ ~resp.err
        /\ Range(resp.ids) = DOMAIN clients
        /\ Len(resp.ids) = Cardinality(DOMAIN clients)
        /\ \A i, j \in 1..Len(resp.ids) :
              i < j => clients[resp.ids[i]].score >= clients[resp.ids[j]].score

C10_Witness ==
    /\ resp.op = "QueryClients"
    /\ resp.req = NoFilter
    /\ Len(resp.ids) = 2
    /\ resp.ids[1] > resp.ids[2]
    /\ clients[resp.ids[1]].score > clients[resp.ids[2]].score
    /\ MatchesOf(resp.ids[1]) # {}

\* C11: DeleteClient is idempotent.  On an id that has no row the statement
\* is not blocked and, when it executes, the handler succeeds and leaves the
\* store unchanged; after a successful DeleteClient(id) the id has no row (so
\* a second call changes nothing more), and every other row is unchanged
C11_DeleteIdempotent ==
    [][\A id \in KnownIds :
          /\ (Alive /\ DbOpen /\ id \notin DOMAIN clients) => ENABLED DeleteClient(id, TRUE)
          /\ DeleteClient(id, TRUE)
                => /\ id \notin DOMAIN clients'
                   /\ DOMAIN clients' = DOMAIN clients \ {id}
                   /\ \A i \in DOMAIN clients' : clients'[i] = clients[i]
                   /\ id \notin DOMAIN clients => UNCHANGED storeVars]_vars

C11_Witness ==
    /\ \E i \in 1..(nextId - 1) : i \notin DOMAIN clients
    /\ \E j \in DOMAIN clients : clients[j].score # initScore[j]

\* the number of positions of list s that hold x
Count(s, x) == Cardinality({ i \in 1..Len(s) : s[i] = x })

\* C12: the list Sort returns is in ascending order; without
\* remove_duplicates it is a permutation of the input, with remove_duplicates
\* it holds each distinct string of the input exactly once
C12_SortedOutput ==
    (resp.op = "Sort" /\ ~resp.err) =>
        LET in == resp.req.items
            out == resp.ids IN
        /\ \A i \in 1..(Len(out) - 1) : ~StrLess(out[i + 1], out[i])
        /\ ~resp.req.remove_duplicates
              => \A w \in Range(Words) : Count(out, w) = Count(in, w)
        /\ resp.req.remove_duplicates
              => \A w \in Range(Words) : Count(out, w) = IF w \in Range(in) THEN 1 ELSE 0

C12_Witness ==
    /\ resp.op = "Sort"
    /\ resp.req = [items |-> <<"b", "ab", "a", "b">>, remove_duplicates |-> TRUE]
    /\ resp.ids = <<"a", "ab", "b">>

\* C13: Sort on the empty list with remove_duplicates returns the empty list
\* and does not fail
C13_EmptySortIsEmpty ==
    (resp.op = "Sort" /\ resp.req = [items |-> <<>>, remove_duplicates |-> TRUE])
        => (~resp.err /\ resp.ids = <<>> /\ Alive)

\* C14: the storage connection is closed at most once and only after the
\* context is done; only the cleanup task's step closes it, no handler does;
\* and once the context is done, the cleanup task of a live process
\* eventually has closed it exactly once
C14_ClosedOnceAfterShutdown ==
    /\ [](dbCloses <= 1 /\ (dbCloses > 0 => ctxDone))
    /\ [][dbCloses' # dbCloses => (cleanupPc = "close" /\ cleanupPc' = "exit")]_vars
    /\ (ctxDone ~> (dbCloses = 1 \/ ~Alive))

C14_Witness ==
    /\ dbCloses = 1
    /\ cleanupPc = "exit"
    /\ Alive
    /\ resp.op = "GetClients"
    /\ resp.err
    /\ resp.req # <<>>

\* C15: a client whose birthday is stored as null (created with birthday 0)
\* is returned by GetClients with birthday 0, and likewise a null created_at
\* is returned as 0
C15_NullTimeDecodesToZero ==
    resp.op = "GetClients" =>
        \A i \in 1..Len(resp.clients) :
            LET row == clients[resp.clients[i].id] IN
            /\ ~row.birthday.valid => resp.clients[i].birthday = 0
            /\ ~row.created_at.valid => resp.clients[i].created_at = 0

\* this transition is the return of a NewMatch invocation with a success
\* response
ReturnsOk(t) == Returns(t) /\ ~NewMatchResponse(t).err

\* this transition leaves the score of every row it does not create or
\* delete as it was
KeepsScores ==
    \A i \in DOMAIN clients \cap DOMAIN clients' : clients'[i].score = clients[i].score

\* this transition adds d to the score of client c, when c has a row, and
\* changes nothing else of clients
AddsToScore(c, d) ==
    clients' = IF c \in DOMAIN clients THEN [clients EXCEPT ![c].score = @ + d]
               ELSE clients

\* C16: only the Match Ledger changes a score.  A step of NewClient,
\* QueryClients, GetClients, DeleteClient, DeleteAllClients or Sort (any step
\* that is not the successful return of a NewMatch) leaves the score of every
\* row that exists before and after it unchanged; the successful return of
\* NewMatch(c, d) adds exactly d to the score of c and changes no other field
\* and no other client
C16_ScoreOnlyByLedger ==
    [][/\ (\A t \in Tx : ~ReturnsOk(t)) => KeepsScores
       /\ \A t \in Tx : ReturnsOk(t) => AddsToScore(txReq[t].client_id, txReq[t].score)]_vars

\* C17: NewMatch for a client_id that has no row does not fail on that
\* account: its UPDATE is not blocked and, when it executes, is no error;
\* when its statements have succeeded and its Commit takes effect, it
\* returns success, exactly one new row for that client_id, with the
\* returned id and the delta, is in client_matches, and clients is unchanged
C17_DanglingMatchAllowed ==
    [][\A t \in Tx :
          LET c == txReq[t].client_id IN
          c \notin DOMAIN clients =>
              /\ (pc[t] = "update" /\ DbOpen) => ENABLED Update(t, TRUE)
              /\ Update(t, TRUE) => (failed'[t] = "none" /\ pc'[t] = "commit")
              /\ (DeferredCommit(t, TRUE) /\ failed[t] = "none")
                    => LET m == [id |-> NewMatchResponse(t).ids[1], client_id |-> c,
                                 score |-> txReq[t].score] IN
                       /\ ~NewMatchResponse(t).err
                       /\ m \notin matches
                       /\ matches' = matches \cup {m}
                       /\ clients' = clients]_vars

C17_Witness ==
    /\ \E t \in Tx : /\ pc[t] = "done"
                     /\ failed[t] = "none"
                     /\ txReq[t].client_id \notin DOMAIN clients
                     /\ \E m \in matches : m.client_id = txReq[t].client_id
    /\ \E i \in DOMAIN clients : clients[i].score = initScore[i]

\* C18: a successful NewClient adds exactly one row, under the returned id
\* and with the supplied name and score, and leaves every other row
\* unchanged; the returned id is the id of no existing row, and every row's
\* id is one that was handed out, so the ids of the rows stay pairwise
\* distinct; a failed insert returns an error and, not being retried, leaves
\* the store unchanged
C18_NewClientAddsOneRow ==
    /\ [](\A i \in DOMAIN clients : i \in 1..(nextId - 1))
    /\ [][\A req \in NewClientReqs :
            /\ NewClient(req, TRUE, MaxClients)
                  => LET r == NewClientResponse(req, SecureID, TRUE)
                         id == r.ids[1] IN
                     /\ ~r.err
                     /\ id \notin DOMAIN clients
                     /\ DOMAIN clients' = DOMAIN clients \cup {id}
                     /\ clients'[id].name = req.name
                     /\ clients'[id].score = req.score
                     /\ \A i \in DOMAIN clients : clients'[i] = clients[i]
                     /\ matches' = matches
            /\ NewClient(req, FALSE, MaxClients)
                  => (NewClientResponse(req, SecureID, FALSE).err /\ UNCHANGED storeVars)]_vars

C18_Witness ==
    /\ DOMAIN clients = {1, 2}
    /\ clients[1].name = "ann"
    /\ clients[2].name = "bob"
    /\ clients[2].score = 1
    /\ clients[1].score # 0

\* C19: DeleteClient and DeleteAllClients leave client_matches unchanged: a
\* step of either, and any step that removes rows of clients, changes no
\* match row, so the match rows of a deleted client remain
C19_DeletesKeepMatches ==
    [][/\ \A id \in KnownIds, ok \in BOOLEAN : DeleteClient(id, ok) => matches' = matches
       /\ \A ok \in BOOLEAN : DeleteAllClients(ok) => matches' = matches
       /\ (DOMAIN clients' # DOMAIN clients /\ DOMAIN clients' \subseteq DOMAIN clients)
             => matches' = matches]_vars

C19_Witness ==
    /\ \E m \in matches : m.client_id \in 1..(nextId - 1) /\ m.client_id \notin DOMAIN clients
    /\ DOMAIN clients # {}

====
